---- MODULE Spec2Model ----
(***************************************************************************)
(* A model of basalt, a terminal note browser.                             *)
(*                                                                         *)
(*   bundles.rs : Note, Bundle, BundleLoader (the lazy bundle cache)       *)
(*   app.rs     : BasaltApp (file list, list cursor, current file, TUI     *)
(*                loop)                                                    *)
(*                                                                         *)
(* The file system is part of the state: the program only reads it, and    *)
(* anything else may change it between two operations of the program.      *)
(*                                                                         *)
(* Rust values are written as follows: Option<T> is a sequence of length   *)
(* at most one (None = <<>>, Some(x) = <<x>>), a PathBuf is the sequence   *)
(* of its components, a Vec is a sequence, and an index is 0-based as in   *)
(* the source (Vec element i is sequence element i + 1).                   *)
(***************************************************************************)
EXTENDS Integers, Sequences, FiniteSets, TLC

VARIABLES
    fs,       \* the file system: path -> node
    note,     \* a Note owned by the caller on its own: [path, content]
    bundle,   \* the Bundle held by the caller: [path, notes]
    reads,    \* per note of `bundle`: fs::read_to_string calls made by Note::load
    last,     \* the last step taken (by the program or on the file system)
              \* and, for an operation of the program, what it returned
    app,      \* the BasaltApp: its state, its data and its current_dir
    pc,       \* where BasaltApp::run is: "run" (not called yet), "draw" and
              \* "event" (in the loop, before terminal.draw / handle_events),
              \* "done" (returned Ok), "failed" (returned an error), "panic"
    streak,   \* how many select_next key presses the session consists of so
              \* far (each followed by a draw that rendered the list), or
              \* -1 once anything else has happened
    refreshed \* whether a refresh has been handled since the last
              \* select_next or select_prev

cacheVars == <<note, bundle, reads>>

appVars == <<app, pc, streak, refreshed>>

vars == <<fs, note, bundle, reads, last, app, pc, streak, refreshed>>

----------------------------------------------------------------------------
(* Option<T> *)

None == <<>>

Some(x) == <<x>>

IsSome(o) == Len(o) = 1

Unwrap(o) == o[1]

Min(a, b) == IF a <= b THEN a ELSE b

Max(a, b) == IF a >= b THEN a ELSE b

Range(s) == {s[k] : k \in 1..Len(s)}

\* All orders in which the elements of the finite set S can be enumerated.
Perms(S) ==
    {s \in [1..Cardinality(S) -> S] : \A a, b \in 1..Cardinality(S) : s[a] = s[b] => a = b}

----------------------------------------------------------------------------
(* The file system *)

\* The bundle directory handed to BundleLoader::new.
BundleDir == <<"basalt">>

\* The names the bundle directory's plain files can have.
FileNames == {"1.md", "2.md"}

\* The sub-directory of the bundle directory, and the file inside it.
DirName == "folder1"

InnerName == "1.md"

\* What a note's file can hold (the empty file included).
Texts == {"", "this is a test file"}

\* What the file inside the sub-directory holds.
InnerText == "# init.md"

InnerPath == BundleDir \o <<DirName, InnerName>>

FilePaths == {BundleDir \o <<n>> : n \in FileNames} \cup {InnerPath}

\* The texts the model writes to the file at p.
TextsAt(p) == IF p = InnerPath THEN {InnerText} ELSE Texts

DirPaths == {BundleDir, BundleDir \o <<DirName>>}

\* The directory trees the model explores: the paths that can exist. One has
\* two plain files, the other a plain file and a sub-directory with a file in
\* it.
Layouts ==
    { {BundleDir} \cup {BundleDir \o <<n>> : n \in FileNames},
      {BundleDir, BundleDir \o <<"1.md">>, BundleDir \o <<DirName>>, InnerPath} }

\* The most entries the bundle directory can have.
MaxEntries == Cardinality(FileNames)

Absent == [kind |-> "absent"]

Dir == [kind |-> "dir"]

File(t) == [kind |-> "file", text |-> t]

Parent(p) == SubSeq(p, 1, Len(p) - 1)

IsUnder(q, p) == Len(q) > Len(p) /\ SubSeq(q, 1, Len(p)) = p

\* The parent directory of p exists (a path outside the modelled tree hangs
\* off a directory that always exists).
ParentIsDir(f, p) == Parent(p) \in DOMAIN f => f[Parent(p)] = Dir

FsWellFormed(f) ==
    /\ \A p \in DOMAIN f : f[p] # Absent => ParentIsDir(f, p)
    /\ \A p \in DOMAIN f \cap FilePaths : f[p] \in {Absent} \cup {File(t) : t \in TextsAt(p)}
    /\ \A p \in DOMAIN f \cap DirPaths : f[p] \in {Absent, Dir}

\* std::fs::read_to_string(p): the text of a regular file, an error otherwise
\* (missing, or a directory).
ReadToString(f, p) ==
    IF p \in DOMAIN f /\ f[p].kind = "file"
    THEN [ok |-> TRUE, val |-> f[p].text]
    ELSE [ok |-> FALSE, val |-> ""]

\* The entries std::fs::read_dir(p) finds: the direct children of p.
DirEntries(f, p) ==
    {q \in DOMAIN f : Len(q) = Len(p) + 1 /\ IsUnder(q, p) /\ f[q] # Absent}

\* std::fs::read_dir(p) fails when p is missing or not a directory.
ReadDirOk(f, p) == p \in DOMAIN f /\ f[p] = Dir

\* Another program writes a file (creating or replacing it).
FsWrite(p, t) ==
    /\ p \in DOMAIN fs \cap FilePaths
    /\ ParentIsDir(fs, p)
    /\ fs[p] # File(t)
    /\ fs[p] # Dir
    /\ fs' = [fs EXCEPT ![p] = File(t)]

\* Another program creates a directory.
FsMkdir(p) ==
    /\ p \in DOMAIN fs \cap DirPaths
    /\ ParentIsDir(fs, p)
    /\ fs[p] = Absent
    /\ fs' = [fs EXCEPT ![p] = Dir]

\* Another program removes a file, or a directory with everything in it.
FsRemove(p) ==
    /\ p \in DOMAIN fs
    /\ fs[p] # Absent
    /\ fs' = [q \in DOMAIN fs |-> IF q = p \/ IsUnder(q, p) THEN Absent ELSE fs[q]]

FsStep ==
    \/ \E p \in FilePaths : \E t \in TextsAt(p) : FsWrite(p, t)
    \/ \E p \in DirPaths : FsMkdir(p)
    \/ \E p \in FilePaths \cup DirPaths : FsRemove(p)

\* fs::create_dir_all(dir), as create_new_dir and BundleLoader::init call it:
\* dir and its missing parents are directories afterwards.
CreateNewDir(f, dir) ==
    [q \in DOMAIN f |-> IF q = dir \/ IsUnder(dir, q) THEN Dir ELSE f[q]]

----------------------------------------------------------------------------
(* The record of the last step *)

\* op: the operation; idx: its index argument; ret: what it returned; read:
\* whether it called fs::read_to_string; skipped: the directory entries a scan
\* failed to read; drawn: whether a draw rendered the list; path: the path a
\* BundleLoader was made for; enum: the order in which a scan's read_dir
\* yielded the entries; old: the content a note held when Note::load was
\* called on it; created: the directories a BundleLoader::init created; key:
\* the KeyCode of a key press.
Did(op, idx, ret, read) ==
    [op |-> op, idx |-> idx, ret |-> ret, read |-> read, skipped |-> {}, drawn |-> FALSE,
     path |-> <<>>, enum |-> <<>>, old |-> <<>>, created |-> {}, key |-> ""]

Ok == <<"Ok">>

Err == <<"Err">>

\* A step of another program on the file system.
FsChange == FsStep /\ last' = Did("fs", 0, <<>>, FALSE)

----------------------------------------------------------------------------
(* app.rs: BasaltApp, its data *)

\* BasaltApp::default(): BasaltState::Init, no files, nothing selected, no
\* current file, an empty current_dir. `selected` is list_state.selected().
DefaultApp ==
    [state |-> "Init", files |-> <<>>, selected |-> None, current_file |-> None,
     current_file_contents |-> None, current_dir |-> <<>>]

----------------------------------------------------------------------------
(* bundles.rs: Note *)

NOTE_BAD_NAME == "<<error>>"

\* Path::file_name: the last component, None for the empty path, a root or a
\* path ending in "..".
FileName(path) ==
    IF Len(path) = 0 \/ path[Len(path)] \in {"..", "/"}
    THEN None
    ELSE Some(path[Len(path)])

NewNote(path) == [path |-> path, content |-> None]

\* A load that drops the cached text when the read fails.
NoteLoadClearsOnError(f, n) ==
    LET c == ReadToString(f, n.path)
    IN  IF c.ok
        THEN [note |-> [n EXCEPT !.content = Some(c.val)], res |-> "Ok"]
        ELSE [note |-> [n EXCEPT !.content = None], res |-> "Err"]

\* A load that caches the empty text when the read fails.
NoteLoadDefaultsOnError(f, n) ==
    LET c == ReadToString(f, n.path)
    IN  IF c.ok
        THEN [note |-> [n EXCEPT !.content = Some(c.val)], res |-> "Ok"]
        ELSE [note |-> [n EXCEPT !.content = Some("")], res |-> "Err"]

\* A load that reads the file only for a note that holds nothing yet.
NoteLoadKeepsFirst(f, n) ==
    LET c == ReadToString(f, n.path)
    IN  IF c.ok
        THEN [note |-> IF IsSome(n.content) THEN n ELSE [n EXCEPT !.content = Some(c.val)],
              res |-> "Ok"]
        ELSE [note |-> n, res |-> "Err"]

\* Note::load: the note afterwards and the Result.
NoteLoad(f, n) ==
    LET c == ReadToString(f, n.path)
    IN  IF c.ok
        THEN [note |-> [n EXCEPT !.content = Some(c.val)], res |-> "Ok"]
        ELSE [note |-> n, res |-> "Err"]

NoteIsLoaded(n) == IsSome(n.content)

NoteGet(n) == n.content

\* A name that is the last component of the path, whatever it is.
NoteNameLossy(n) == IF Len(n.path) = 0 THEN "" ELSE n.path[Len(n.path)]

\* Note::name
NoteName(n) ==
    IF IsSome(FileName(n.path)) THEN Unwrap(FileName(n.path)) ELSE NOTE_BAD_NAME

----------------------------------------------------------------------------
(* bundles.rs: Bundle and BundleLoader *)

\* How many reads of one note's file the model follows.
MaxReads == 2

\* The indices callers pass to get_note: every index of the largest bundle
\* and the first one past it.
Indices == 0..MaxEntries

DefaultNote == [path |-> <<>>, content |-> None]

DefaultBundle == [path |-> <<>>, notes |-> <<>>]

BundleName(b) ==
    IF IsSome(FileName(b.path)) THEN Unwrap(FileName(b.path)) ELSE "<<ERROR BUNDLE NAME>>"

BundleGetPath(b) == b.path

BundleGetNoteNames(b) == [k \in 1..Len(b.notes) |-> NoteName(b.notes[k])]

\* A scan that reads every file it finds.
ScanNotesEager(enum, bad) ==
    LET good == SelectSeq(enum, LAMBDA q : q \notin bad)
    IN  [k \in 1..Len(good) |-> NoteLoad(fs, NewNote(good[k])).note]

\* A scan that leaves the sub-directories out.
ScanNotesSkipsDirs(enum, bad) ==
    LET good == SelectSeq(enum, LAMBDA q : q \notin bad /\ fs[q] # Dir)
    IN  [k \in 1..Len(good) |-> NewNote(good[k])]

\* A scan that lists the entries in the reverse of the order read_dir yields.
ScanNotesReversed(enum, bad) ==
    LET good == SelectSeq(enum, LAMBDA q : q \notin bad)
    IN  [k \in 1..Len(good) |-> NewNote(good[Len(good) + 1 - k])]

\* The notes BundleLoader::load builds from an enumeration `enum` of the
\* directory in which the entries `bad` failed to be read.
ScanNotes(enum, bad) ==
    LET good == SelectSeq(enum, LAMBDA q : q \notin bad)
    IN  [k \in 1..Len(good) |-> NewNote(good[k])]

\* BundleLoader::new(path).load(): the caller replaces its bundle when the
\* scan succeeds and keeps it when the scan fails.
BundleLoaderLoad(path) ==
    IF ReadDirOk(fs, path)
    THEN \E enum \in Perms(DirEntries(fs, path)) :
         \E bad \in SUBSET DirEntries(fs, path) :
            /\ bundle' = [path |-> path, notes |-> ScanNotes(enum, bad)]
            /\ reads' = [k \in 1..Len(bundle'.notes) |-> 0]
            /\ last' = [Did("load", 0, Ok, FALSE) EXCEPT
                           !.skipped = bad, !.path = path, !.enum = enum]
            /\ UNCHANGED <<fs, note, appVars>>
    ELSE /\ last' = [Did("load", 0, Err, FALSE) EXCEPT !.path = path]
         /\ UNCHANGED <<fs, cacheVars, appVars>>

\* std::fs::create_dir_all(dir) fails when dir or one of the directories
\* above it is there and is not a directory.
CreateDirAllOk(f, dir) ==
    \A q \in DOMAIN f : (q = dir \/ IsUnder(dir, q)) => f[q].kind # "file"

\* An init that scans a directory that is already there.
BundleLoaderInitScans(path) ==
    IF CreateDirAllOk(fs, path)
    THEN \E enum \in Perms(DirEntries(fs, path)) :
            /\ fs' = CreateNewDir(fs, path)
            /\ bundle' = [path |-> path, notes |-> ScanNotes(enum, {})]
            /\ reads' = [k \in 1..Len(bundle'.notes) |-> 0]
            /\ last' = [Did("init", 0, Ok, FALSE) EXCEPT
                           !.path = path,
                           !.created = {q \in DOMAIN fs : fs[q] # fs'[q]}]
            /\ UNCHANGED <<note, appVars>>
    ELSE /\ last' = [Did("init", 0, Err, FALSE) EXCEPT !.path = path]
         /\ UNCHANGED <<fs, cacheVars, appVars>>

\* BundleLoader::new(path).init(): the caller holds the new, empty bundle
\* when the directory could be created (or was there) and keeps its bundle
\* when not.
BundleLoaderInit(path) ==
    IF CreateDirAllOk(fs, path)
    THEN /\ fs' = CreateNewDir(fs, path)
         /\ bundle' = [path |-> path, notes |-> <<>>]
         /\ reads' = <<>>
         /\ last' = [Did("init", 0, Ok, FALSE) EXCEPT
                        !.path = path,
                        !.created = {q \in DOMAIN fs : fs[q] # fs'[q]}]
         /\ UNCHANGED <<note, appVars>>
    ELSE /\ last' = [Did("init", 0, Err, FALSE) EXCEPT !.path = path]
         /\ UNCHANGED <<fs, cacheVars, appVars>>

\* A get_note that loads whether or not the note is loaded.
GetNoteAlwaysLoads(idx) ==
    IF idx < Len(bundle.notes)
    THEN /\ reads[idx + 1] < MaxReads
         /\ bundle' = [bundle EXCEPT !.notes[idx + 1] = NoteLoad(fs, @).note]
         /\ reads' = [reads EXCEPT ![idx + 1] = @ + 1]
         /\ last' = Did("get_note", idx, Some(bundle'.notes[idx + 1]), TRUE)
         /\ UNCHANGED <<fs, note, appVars>>
    ELSE /\ last' = Did("get_note", idx, None, FALSE)
         /\ UNCHANGED <<fs, cacheVars, appVars>>

\* A get_note that loads every unloaded note of the bundle.
GetNoteLoadsAll(idx) ==
    IF idx < Len(bundle.notes) /\ ~NoteIsLoaded(bundle.notes[idx + 1])
    THEN /\ reads[idx + 1] < MaxReads
         /\ bundle' = [bundle EXCEPT !.notes =
                          [k \in 1..Len(@) |->
                              IF NoteIsLoaded(@[k]) THEN @[k] ELSE NoteLoad(fs, @[k]).note]]
         /\ reads' = [reads EXCEPT ![idx + 1] = @ + 1]
         /\ last' = Did("get_note", idx, Some(bundle'.notes[idx + 1]), TRUE)
         /\ UNCHANGED <<fs, note, appVars>>
    ELSE /\ last' = Did("get_note", idx,
                        IF idx < Len(bundle.notes)
                        THEN Some(bundle.notes[idx + 1]) ELSE None,
                        FALSE)
         /\ UNCHANGED <<fs, cacheVars, appVars>>

\* The sequence s without its k-th element.
Without(s, k) == SubSeq(s, 1, k - 1) \o SubSeq(s, k + 1, Len(s))

\* A get_note that drops a note whose file cannot be read from the bundle.
GetNoteDropsUnreadable(idx) ==
    IF idx < Len(bundle.notes) /\ ~NoteIsLoaded(bundle.notes[idx + 1])
    THEN /\ reads[idx + 1] < MaxReads
         /\ IF NoteLoad(fs, bundle.notes[idx + 1]).res = "Ok"
            THEN /\ bundle' = [bundle EXCEPT !.notes[idx + 1] = NoteLoad(fs, @).note]
                 /\ reads' = [reads EXCEPT ![idx + 1] = @ + 1]
                 /\ last' = Did("get_note", idx, Some(bundle'.notes[idx + 1]), TRUE)
            ELSE /\ bundle' = [bundle EXCEPT !.notes = Without(@, idx + 1)]
                 /\ reads' = Without(reads, idx + 1)
                 /\ last' = Did("get_note", idx, None, TRUE)
         /\ UNCHANGED <<fs, note, appVars>>
    ELSE /\ last' = Did("get_note", idx,
                        IF idx < Len(bundle.notes)
                        THEN Some(bundle.notes[idx + 1]) ELSE None,
                        FALSE)
         /\ UNCHANGED <<fs, cacheVars, appVars>>

\* A get_note that takes an index past the end for the last index.
GetNoteClamps(idx) ==
    LET i == IF idx < Len(bundle.notes) THEN idx ELSE Len(bundle.notes) - 1
    IN  IF i >= 0 /\ ~NoteIsLoaded(bundle.notes[i + 1])
        THEN /\ reads[i + 1] < MaxReads
             /\ bundle' = [bundle EXCEPT !.notes[i + 1] = NoteLoad(fs, @).note]
             /\ reads' = [reads EXCEPT ![i + 1] = @ + 1]
             /\ last' = Did("get_note", idx, Some(bundle'.notes[i + 1]), TRUE)
             /\ UNCHANGED <<fs, note, appVars>>
        ELSE /\ last' = Did("get_note", idx,
                            IF i >= 0 THEN Some(bundle.notes[i + 1]) ELSE None,
                            FALSE)
             /\ UNCHANGED <<fs, cacheVars, appVars>>

\* Bundle::get_note(idx)
GetNote(idx) ==
    IF idx < Len(bundle.notes) /\ ~NoteIsLoaded(bundle.notes[idx + 1])
    THEN /\ reads[idx + 1] < MaxReads
         /\ bundle' = [bundle EXCEPT !.notes[idx + 1] = NoteLoad(fs, @).note]
         /\ reads' = [reads EXCEPT ![idx + 1] = @ + 1]
         /\ last' = Did("get_note", idx, Some(bundle'.notes[idx + 1]), TRUE)
         /\ UNCHANGED <<fs, note, appVars>>
    ELSE /\ last' = Did("get_note", idx,
                        IF idx < Len(bundle.notes)
                        THEN Some(bundle.notes[idx + 1]) ELSE None,
                        FALSE)
         /\ UNCHANGED <<fs, cacheVars, appVars>>

\* Bundle::get_note_names()
GetNoteNames ==
    /\ last' = Did("get_note_names", 0, BundleGetNoteNames(bundle), FALSE)
    /\ UNCHANGED <<fs, cacheVars, appVars>>

\* Bundle::name()
GetName ==
    /\ last' = Did("name", 0, <<BundleName(bundle)>>, FALSE)
    /\ UNCHANGED <<fs, cacheVars, appVars>>

\* Bundle::get_path()
GetPath ==
    /\ last' = Did("get_path", 0, BundleGetPath(bundle), FALSE)
    /\ UNCHANGED <<fs, cacheVars, appVars>>

----------------------------------------------------------------------------
(* The bundle cache and its caller *)

Nodes == {Absent, Dir} \cup {File(t) : t \in Texts \cup {InnerText}}

\* Any tree of one of the layouts in which the bundle directory exists.
InitFs ==
    \E layout \in Layouts :
        fs \in {f \in [layout -> Nodes] : FsWellFormed(f) /\ f[BundleDir] = Dir}

\* The caller starts with no scan made: the loader path is known, the bundle
\* is the empty default.
InitBundle ==
    /\ InitFs
    /\ note = DefaultNote
    /\ bundle = DefaultBundle
    /\ reads = <<>>
    /\ last = Did("new", 0, <<>>, FALSE)
    /\ app = DefaultApp
    /\ pc = "run"
    /\ streak = 0
    /\ refreshed = FALSE

NextBundle ==
    \/ BundleLoaderLoad(BundleDir)
    \/ \E idx \in Indices : GetNote(idx)
    \/ GetNoteNames
    \/ GetName
    \/ GetPath
    \/ FsChange /\ UNCHANGED <<cacheVars, appVars>>

SpecBundle == InitBundle /\ [][NextBundle]_vars

----------------------------------------------------------------------------
(* BundleLoader and its caller *)

\* The paths a BundleLoader is made for: the directories of the tree and the
\* path of one of its plain files.
LoaderPaths(f) == DOMAIN f \cap (DirPaths \cup {BundleDir \o <<"1.md">>})

\* Any tree of one of the layouts, the bundle directory there or not; no
\* bundle made yet.
InitLoader ==
    /\ \E layout \in Layouts : fs \in {f \in [layout -> Nodes] : FsWellFormed(f)}
    /\ note = DefaultNote
    /\ bundle = DefaultBundle
    /\ reads = <<>>
    /\ last = Did("new", 0, <<>>, FALSE)
    /\ app = DefaultApp
    /\ pc = "run"
    /\ streak = 0
    /\ refreshed = FALSE

NextLoader ==
    \/ \E path \in LoaderPaths(fs) : BundleLoaderInit(path)
    \/ \E path \in LoaderPaths(fs) : BundleLoaderLoad(path)
    \/ GetNoteNames
    \/ FsChange /\ UNCHANGED <<cacheVars, appVars>>

SpecLoader == InitLoader /\ [][NextLoader]_vars

----------------------------------------------------------------------------
(* A Note on its own and its caller *)

\* The root directory.
RootPath == <<"/">>

\* The paths a Note is made for: every path of the tree below the bundle
\* directory, and the two kinds of path without a file name.
NotePaths(f) == (DOMAIN f \ {BundleDir}) \cup {BundleDir \o <<"..">>, RootPath}

\* note.load()
NoteLoadCall ==
    /\ note' = NoteLoad(fs, note).note
    /\ last' = [Did("note_load", 0, <<NoteLoad(fs, note).res>>, TRUE) EXCEPT
                   !.old = note.content]
    /\ UNCHANGED <<fs, bundle, reads, appVars>>

\* note.is_loaded()
NoteIsLoadedCall ==
    /\ last' = Did("note_is_loaded", 0, <<NoteIsLoaded(note)>>, FALSE)
    /\ UNCHANGED <<fs, cacheVars, appVars>>

\* note.get()
NoteGetCall ==
    /\ last' = Did("note_get", 0, NoteGet(note), FALSE)
    /\ UNCHANGED <<fs, cacheVars, appVars>>

\* note.name()
NoteNameCall ==
    /\ last' = Did("note_name", 0, <<NoteName(note)>>, FALSE)
    /\ UNCHANGED <<fs, cacheVars, appVars>>

\* Note { path, ..Default::default() } for any of the paths.
InitNote ==
    /\ InitFs
    /\ note \in {NewNote(p) : p \in NotePaths(fs)}
    /\ bundle = DefaultBundle
    /\ reads = <<>>
    /\ last = Did("new", 0, <<>>, FALSE)
    /\ app = DefaultApp
    /\ pc = "run"
    /\ streak = 0
    /\ refreshed = FALSE

NextNote ==
    \/ NoteLoadCall
    \/ NoteIsLoadedCall
    \/ NoteGetCall
    \/ NoteNameCall
    \/ FsChange /\ UNCHANGED <<cacheVars, appVars>>

SpecNote == InitNote /\ [][NextNote]_vars

----------------------------------------------------------------------------
(* ratatui's ListState and List, as app.rs uses them *)

\* usize::MAX, which select_last and select_previous store for "the last
\* item". The model's integers end at 2^31 - 1; no index of the model comes
\* near either number.
UsizeMax == 2147483647

\* ListState::select_first
ListSelectFirst == Some(0)

\* ListState::select_last: the list length is not known to the state, the
\* index is corrected when the list is rendered.
ListSelectLast == Some(UsizeMax)

\* ListState::select_next: the next index (saturating), 0 with no selection.
ListSelectNext(sel) ==
    Some(IF IsSome(sel) THEN (IF Unwrap(sel) = UsizeMax THEN UsizeMax ELSE Unwrap(sel) + 1)
         ELSE 0)

\* ListState::select_previous: the previous index (saturating), usize::MAX
\* with no selection.
ListSelectPrevious(sel) ==
    Some(IF IsSome(sel) THEN Max(Unwrap(sel) - 1, 0) ELSE UsizeMax)

\* Rendering a List of n items with the state (render_stateful_widget): an
\* empty list drops the selection, an index past the end becomes the last
\* index. Nothing of this happens when the list has no room on the screen.
ListRender(sel, n, areaEmpty) ==
    IF areaEmpty THEN sel
    ELSE IF n = 0 THEN None
    ELSE IF IsSome(sel) /\ Unwrap(sel) >= n THEN Some(n - 1)
    ELSE sel

----------------------------------------------------------------------------
(* app.rs: BasaltApp *)

\* ProjectDirs::data_dir(): the application's data directory.
DataDir == BundleDir

\* The text read_file_contents returns for a failed read.
ErrorReadingFile == "Error reading file"

\* How far past the list the model follows the list index.
MaxSelected == 3

\* The longest run of select_next key presses the model counts.
MaxStreak == 7

\* KeyCode of a key press; "x" is any key without a binding.
KeyCodes == {"q", "Esc", "j", "Down", "k", "Up", "r", "x"}

\* Path::strip_prefix
StripPrefix(p, base) ==
    IF p = base \/ IsUnder(p, base)
    THEN Some(SubSeq(p, Len(base) + 1, Len(p)))
    ELSE None

\* The items draw puts in the navigation list: each file's path relative to
\* current_dir.
ListItems(a) ==
    LET kept == SelectSeq(a.files, LAMBDA q : IsSome(StripPrefix(q, a.current_dir)))
    IN  [k \in 1..Len(kept) |-> Unwrap(StripPrefix(kept[k], a.current_dir))]

\* load_from_dir: the paths of an enumeration `enum` of the directory in
\* which the entries `bad` failed to be read.
LoadFromDir(enum, bad) == SelectSeq(enum, LAMBDA q : q \notin bad)

\* A read_file_contents that returns the empty text for a failed read.
ReadFileContentsEmptyOnError(f, path) ==
    IF ReadToString(f, path).ok THEN ReadToString(f, path).val ELSE ""

\* read_file_contents
ReadFileContents(f, path) ==
    IF ReadToString(f, path).ok THEN ReadToString(f, path).val ELSE ErrorReadingFile

\* A set_current_file that keeps the contents held for the file before.
SetCurrentFileKeepsContents(a, path) == [a EXCEPT !.current_file = Some(path)]

\* set_current_file
SetCurrentFile(a, path) ==
    [a EXCEPT !.current_file = Some(path), !.current_file_contents = None]

\* A select_next_file that wraps around to the first file at the end.
SelectNextFileWraps(a) ==
    LET nxt == IF a.selected = None THEN ListSelectFirst ELSE ListSelectNext(a.selected)
        sel == IF Unwrap(nxt) >= Len(a.files) THEN ListSelectFirst ELSE nxt
        b == [a EXCEPT !.selected = sel]
    IN  IF Unwrap(sel) < Len(a.files)
        THEN SetCurrentFile(b, a.files[Unwrap(sel) + 1])
        ELSE b

\* select_next_file
SelectNextFile(a) ==
    LET sel == IF a.selected = None THEN ListSelectFirst ELSE ListSelectNext(a.selected)
        b == [a EXCEPT !.selected = sel]
    IN  IF Unwrap(sel) < Len(a.files)
        THEN SetCurrentFile(b, a.files[Unwrap(sel) + 1])
        ELSE b

\* The list index select_prev_file moves to.
SelectPrevIndex(a) ==
    IF a.selected = None THEN ListSelectLast ELSE ListSelectPrevious(a.selected)

\* select_prev_file panics: self.data.files[idx] with idx out of bounds.
SelectPrevFilePanics(a) == Unwrap(SelectPrevIndex(a)) >= Len(a.files)

\* select_prev_file; when it panics, the list state has already moved.
SelectPrevFile(a) ==
    LET sel == SelectPrevIndex(a)
        b == [a EXCEPT !.selected = sel]
    IN  IF Unwrap(sel) < Len(a.files)
        THEN [b EXCEPT !.current_file = Some(a.files[Unwrap(sel) + 1]),
                       !.current_file_contents = None]
        ELSE b

\* What the environment does to the start of run: nothing, no home
\* directory for ProjectDirs::from, or an I/O error (such as a permission
\* denied) in fs::exists, create_dir_all or read_dir.
RunEnvs == {"ok", "no_project_dirs", "io_error"}

\* A run that stays in the state it was entered in.
EnterRunningSkipped(a) == a

\* run: self.state = BasaltState::Running
EnterRunning(a) == [a EXCEPT !.state = "Running"]

\* A loop that goes on whatever the state is.
TuiLoopIgnoresState(a) == "draw"

\* tui_loop's test: another round while the state is not Exiting, Ok(())
\* when it is.
TuiLoop(a) == IF a.state # "Exiting" THEN "draw" ELSE "done"

\* run, up to the first test of the loop: in state Init set current_dir and
\* create the data directory or load the file list from it, returning the
\* error of any step that fails; in any state enter Running.
Run ==
    /\ pc \in {"run", "done", "failed"}
    /\ IF app.state = "Init"
       THEN \E env \in RunEnvs :
            IF env = "no_project_dirs"
            THEN /\ app' = app
                 /\ last' = Did("run", 0, Err, FALSE)
                 /\ pc' = "failed"
                 /\ UNCHANGED fs
            ELSE IF env = "io_error" \/ (fs[DataDir] # Absent /\ ~ReadDirOk(fs, DataDir))
            THEN /\ app' = [app EXCEPT !.current_dir = DataDir]
                 /\ last' = Did("run", 0, Err, FALSE)
                 /\ pc' = "failed"
                 /\ UNCHANGED fs
            ELSE IF fs[DataDir] = Absent
            THEN /\ fs' = CreateNewDir(fs, DataDir)
                 /\ app' = EnterRunning([app EXCEPT !.current_dir = DataDir])
                 /\ last' = Did("run", 0, Ok, FALSE)
                 /\ pc' = TuiLoop(app')
            ELSE \E enum \in Perms(DirEntries(fs, DataDir)) :
                 \E bad \in SUBSET DirEntries(fs, DataDir) :
                    /\ app' = EnterRunning([app EXCEPT !.current_dir = DataDir,
                                                       !.files = LoadFromDir(enum, bad)])
                    /\ last' = [Did("run", 0, Ok, FALSE) EXCEPT
                                   !.skipped = bad, !.enum = enum]
                    /\ pc' = TuiLoop(app')
                    /\ UNCHANGED fs
       ELSE /\ app' = EnterRunning(app)
            /\ last' = Did("run_not_init", 0, Ok, FALSE)
            /\ pc' = TuiLoop(app')
            /\ UNCHANGED fs
    /\ streak' = IF app.state = "Init" THEN streak ELSE -1
    /\ UNCHANGED <<cacheVars, refreshed>>

\* A draw that renders the navigation list without the list state.
DrawWithoutListState ==
    /\ pc = "draw"
    /\ \E areaEmpty, flushed \in BOOLEAN :
         LET reading == IsSome(app.current_file) /\ app.current_file_contents = None
         IN  /\ app' = [app EXCEPT
                          !.current_file_contents =
                              IF reading
                              THEN Some(ReadFileContents(fs, Unwrap(app.current_file)))
                              ELSE @]
             /\ last' = [Did("draw", 0, IF flushed THEN Ok ELSE Err, reading) EXCEPT
                            !.drawn = ~areaEmpty]
             /\ streak' = IF areaEmpty \/ ~flushed THEN -1 ELSE streak
             /\ pc' = IF flushed THEN "event" ELSE "failed"
    /\ UNCHANGED <<fs, cacheVars, refreshed>>

\* A draw that reads the current file every time and holds nothing.
DrawForgetsContents ==
    /\ pc = "draw"
    /\ \E areaEmpty, flushed \in BOOLEAN :
         LET reading == IsSome(app.current_file)
         IN  /\ app' = [app EXCEPT
                          !.selected = ListRender(@, Len(ListItems(app)), areaEmpty)]
             /\ last' = [Did("draw", 0, IF flushed THEN Ok ELSE Err, reading) EXCEPT
                            !.drawn = ~areaEmpty]
             /\ streak' = IF areaEmpty \/ ~flushed THEN -1 ELSE streak
             /\ pc' = IF flushed THEN "event" ELSE "failed"
    /\ UNCHANGED <<fs, cacheVars, refreshed>>

\* terminal.draw(|frame| self.draw(frame))?: render the navigation list with
\* the list state, then show the current file, reading it when its contents
\* are not held; the terminal may then fail to put the frame on the screen,
\* and the loop returns that error.
Draw ==
    /\ pc = "draw"
    /\ \E areaEmpty, flushed \in BOOLEAN :
         LET reading == IsSome(app.current_file) /\ app.current_file_contents = None
         IN  /\ app' = [app EXCEPT
                          !.selected = ListRender(@, Len(ListItems(app)), areaEmpty),
                          !.current_file_contents =
                              IF reading
                              THEN Some(ReadFileContents(fs, Unwrap(app.current_file)))
                              ELSE @]
             /\ last' = [Did("draw", 0, IF flushed THEN Ok ELSE Err, reading) EXCEPT
                            !.drawn = ~areaEmpty]
             /\ streak' = IF areaEmpty \/ ~flushed THEN -1 ELSE streak
             /\ pc' = IF flushed THEN "event" ELSE "failed"
    /\ UNCHANGED <<fs, cacheVars, refreshed>>

\* A refresh that also drops the selection.
RefreshFileListUnselects ==
    IF ReadDirOk(fs, app.current_dir)
    THEN \E enum \in Perms(DirEntries(fs, app.current_dir)) :
         \E bad \in SUBSET DirEntries(fs, app.current_dir) :
            /\ app' = [app EXCEPT !.files = LoadFromDir(enum, bad), !.selected = None]
            /\ last' = [Did("refresh_file_list", 0, Ok, FALSE) EXCEPT
                           !.skipped = bad, !.enum = enum, !.key = "r"]
    ELSE /\ app' = app
         /\ last' = [Did("refresh_file_list", 0, Err, FALSE) EXCEPT !.key = "r"]

\* A refresh that also drops the contents held for the current file.
RefreshFileListInvalidates ==
    IF ReadDirOk(fs, app.current_dir)
    THEN \E enum \in Perms(DirEntries(fs, app.current_dir)) :
         \E bad \in SUBSET DirEntries(fs, app.current_dir) :
            /\ app' = [app EXCEPT !.files = LoadFromDir(enum, bad),
                                  !.current_file_contents = None]
            /\ last' = [Did("refresh_file_list", 0, Ok, FALSE) EXCEPT
                           !.skipped = bad, !.enum = enum, !.key = "r"]
    ELSE /\ app' = app
         /\ last' = [Did("refresh_file_list", 0, Err, FALSE) EXCEPT !.key = "r"]

\* A refresh that empties the list when the scan fails.
RefreshFileListClearsOnError ==
    IF ReadDirOk(fs, app.current_dir)
    THEN \E enum \in Perms(DirEntries(fs, app.current_dir)) :
         \E bad \in SUBSET DirEntries(fs, app.current_dir) :
            /\ app' = [app EXCEPT !.files = LoadFromDir(enum, bad)]
            /\ last' = [Did("refresh_file_list", 0, Ok, FALSE) EXCEPT
                           !.skipped = bad, !.enum = enum, !.key = "r"]
    ELSE /\ app' = [app EXCEPT !.files = <<>>]
         /\ last' = [Did("refresh_file_list", 0, Err, FALSE) EXCEPT !.key = "r"]

\* refresh_file_list: a failed scan is logged and the list kept.
RefreshFileList ==
    IF ReadDirOk(fs, app.current_dir)
    THEN \E enum \in Perms(DirEntries(fs, app.current_dir)) :
         \E bad \in SUBSET DirEntries(fs, app.current_dir) :
            /\ app' = [app EXCEPT !.files = LoadFromDir(enum, bad)]
            /\ last' = [Did("refresh_file_list", 0, Ok, FALSE) EXCEPT
                           !.skipped = bad, !.enum = enum, !.key = "r"]
    ELSE /\ app' = app
         /\ last' = [Did("refresh_file_list", 0, Err, FALSE) EXCEPT !.key = "r"]

\* handle_events with a key press: handle_key_event(code), and the loop's
\* test of the state.
HandleKeyEvent(code) ==
    /\ pc = "event"
    /\ \/ /\ code \in {"q", "Esc"}
          /\ app' = [app EXCEPT !.state = "Exiting"]
          /\ last' = [Did("exit", 0, <<>>, FALSE) EXCEPT !.key = code]
          /\ pc' = TuiLoop(app')
          /\ streak' = -1
          /\ refreshed' = refreshed
       \/ /\ code \in {"j", "Down"}
          /\ IF IsSome(app.selected) THEN Unwrap(app.selected) < MaxSelected ELSE TRUE
          /\ app' = SelectNextFile(app)
          /\ last' = [Did("select_next_file", 0, <<>>, FALSE) EXCEPT !.key = code]
          /\ pc' = TuiLoop(app')
          /\ streak' = IF streak >= 0 /\ streak < MaxStreak THEN streak + 1 ELSE -1
          /\ refreshed' = FALSE
       \/ /\ code \in {"k", "Up"}
          /\ app' = SelectPrevFile(app)
          /\ last' = [Did("select_prev_file", 0, <<>>, FALSE) EXCEPT !.key = code]
          /\ pc' = IF SelectPrevFilePanics(app) THEN "panic" ELSE TuiLoop(app')
          /\ streak' = -1
          /\ refreshed' = FALSE
       \/ /\ code = "r"
          /\ RefreshFileList
          /\ pc' = TuiLoop(app')
          /\ streak' = -1
          /\ refreshed' = TRUE
       \/ /\ code \notin {"q", "Esc", "j", "Down", "k", "Up", "r"}
          /\ app' = app
          /\ last' = [Did("ignored", 0, <<>>, FALSE) EXCEPT !.key = code]
          /\ pc' = TuiLoop(app')
          /\ streak' = -1
          /\ refreshed' = refreshed
    /\ UNCHANGED <<fs, cacheVars>>

\* handle_events with anything but a key press.
HandleOtherEvent ==
    /\ pc = "event"
    /\ last' = Did("ignored", 0, <<>>, FALSE)
    /\ pc' = TuiLoop(app)
    /\ streak' = -1
    /\ UNCHANGED <<fs, cacheVars, app, refreshed>>

\* terminal.draw fails before it renders, or event::read fails: the loop
\* returns the error.
TerminalFails ==
    /\ pc \in {"draw", "event"}
    /\ last' = Did("terminal_error", 0, Err, FALSE)
    /\ pc' = "failed"
    /\ streak' = -1
    /\ UNCHANGED <<fs, cacheVars, app, refreshed>>

\* The application starts with any tree of one of the layouts, the data
\* directory there or not.
InitApp ==
    /\ \E layout \in Layouts : fs \in {f \in [layout -> Nodes] : FsWellFormed(f)}
    /\ note = DefaultNote
    /\ bundle = DefaultBundle
    /\ reads = <<>>
    /\ last = Did("new", 0, <<>>, FALSE)
    /\ app = DefaultApp
    /\ pc = "run"
    /\ streak = 0
    /\ refreshed = FALSE

NextApp ==
    \/ Run
    \/ Draw
    \/ \E code \in KeyCodes : HandleKeyEvent(code)
    \/ HandleOtherEvent
    \/ TerminalFails
    \/ pc \in {"draw", "event"} /\ FsChange /\ UNCHANGED <<cacheVars, appVars>>

SpecApp == InitApp /\ [][NextApp]_vars

----------------------------------------------------------------------------
(* The application and a bundle of the same directory *)

NextScan ==
    \/ NextApp
    \/ BundleLoaderLoad(BundleDir)
    \/ GetNoteNames

SpecScan == InitApp /\ [][NextScan]_vars

----------------------------------------------------------------------------
(* Properties of the bundle cache *)

NoteIdx == 1..Len(bundle.notes)

\* The step replaces the caller's bundle by a freshly scanned one.
BundleReplaced == last'.op = "load" /\ last'.ret = Ok

\* The step is get_note on the index of note k (the k-th of the sequence).
GetNoteOn(k) == last'.op = "get_note" /\ last'.idx = k - 1

\* C1 as stated: Note::load is attempted at most once per note of a bundle.
C1_AtMostOneLoadAttempt == \A k \in 1..Len(reads) : reads[k] <= 1

\* C1, amended: a scan reads no file; on one Bundle value a step reads note
\* k's file exactly when it is get_note(k) on a note that is still unloaded
\* (so the first attempt is the first get_note on the index, and a failed
\* attempt is repeated by the next one); a loaded note has been read at least
\* once and is never read again, so each note is loaded successfully at most
\* once.
C1_OneSuccessfulLoadPerNote ==
    [][ /\ BundleReplaced =>
              /\ ~last'.read
              /\ \A k \in 1..Len(bundle'.notes) :
                    ~NoteIsLoaded(bundle'.notes[k]) /\ reads'[k] = 0
        /\ ~BundleReplaced =>
              /\ Len(reads') = Len(reads)
              /\ Len(reads) = Len(bundle.notes)
              /\ \A k \in NoteIdx :
                    /\ reads'[k] \in {reads[k], reads[k] + 1}
                    /\ reads'[k] = reads[k] + 1
                          <=> (GetNoteOn(k) /\ ~NoteIsLoaded(bundle.notes[k]))
                    /\ reads'[k] = reads[k] + 1 <=> (GetNoteOn(k) /\ last'.read)
                    /\ NoteIsLoaded(bundle.notes[k]) =>
                          reads[k] >= 1 /\ reads'[k] = reads[k]
      ]_vars

\* C1's case: a note whose first load failed and whose second get_note read
\* the file again and loaded it.
C1_Witness ==
    \E k \in NoteIdx :
        /\ last.op = "get_note" /\ last.idx = k - 1 /\ last.read
        /\ reads[k] >= 2
        /\ NoteIsLoaded(bundle.notes[k])

\* C2: on one Bundle value a loaded note keeps its content exactly, whatever
\* happens to the file: no step changes it or reads its file again, and
\* get_note on its index returns it with that content.
C2_LoadedContentIsKept ==
    [][ ~BundleReplaced =>
          \A k \in NoteIdx :
              NoteIsLoaded(bundle.notes[k]) =>
                  /\ Len(bundle'.notes) = Len(bundle.notes)
                  /\ bundle'.notes[k] = bundle.notes[k]
                  /\ reads'[k] = reads[k]
                  /\ GetNoteOn(k) =>
                        /\ ~last'.read
                        /\ last'.ret = Some(bundle.notes[k])
                        /\ NoteGet(Unwrap(last'.ret)) = bundle.notes[k].content
      ]_vars

\* C2's case: get_note has just served a loaded note from the cache, without
\* a read, while the file on disk is gone or holds another text.
C2_Witness ==
    \E k \in NoteIdx :
        /\ last.op = "get_note" /\ last.idx = k - 1 /\ ~last.read
        /\ NoteIsLoaded(bundle.notes[k])
        /\ last.ret = Some(bundle.notes[k])
        /\ fs[bundle.notes[k].path] # File(Unwrap(bundle.notes[k].content))

\* C3: every note of a freshly scanned bundle is unloaded, and the only step
\* after which a note is loaded that was not loaded before is get_note on
\* that note's index: get_note on another index, get_note_names, name and
\* get_path leave it unloaded.
C3_OnlyGetNoteLoads ==
    [][ /\ BundleReplaced =>
              \A k \in 1..Len(bundle'.notes) : ~NoteIsLoaded(bundle'.notes[k])
        /\ ~BundleReplaced =>
              /\ Len(bundle'.notes) = Len(bundle.notes)
              /\ \A k \in NoteIdx :
                    (~NoteIsLoaded(bundle.notes[k]) /\ NoteIsLoaded(bundle'.notes[k]))
                        => GetNoteOn(k)
      ]_vars

\* C3's case: one note was loaded by get_note on its index while another
\* note, whose file is readable, is still unloaded.
C3_Witness ==
    \E j, k \in NoteIdx :
        /\ j # k
        /\ last.op = "get_note" /\ last.idx = j - 1 /\ last.read
        /\ NoteIsLoaded(bundle.notes[j])
        /\ ~NoteIsLoaded(bundle.notes[k])
        /\ ReadToString(fs, bundle.notes[k].path).ok

\* C4: when get_note(i), i in bounds, tries to load note i and the file
\* cannot be read (it is gone, or it is a directory), the call returns
\* Some(note i) and the note is unloaded afterwards.
C4_FailedLoadIsSwallowed ==
    \A k \in NoteIdx :
        ( /\ last.op = "get_note" /\ last.idx = k - 1 /\ last.read
          /\ ~ReadToString(fs, bundle.notes[k].path).ok )
        => /\ last.ret = Some(bundle.notes[k])
           /\ ~NoteIsLoaded(bundle.notes[k])
           /\ NoteGet(bundle.notes[k]) = None

\* C4's case: get_note has just tried to load a note whose file was removed
\* after the scan.
C4_Witness ==
    \E k \in NoteIdx :
        /\ last.op = "get_note" /\ last.idx = k - 1 /\ last.read
        /\ fs[bundle.notes[k].path] = Absent
        /\ last.ret = Some(bundle.notes[k])


\* C5: a Note::load whose read fails returns an error and leaves the note as
\* it was, None or Some(s) alike; and a load that returns an error has
\* changed nothing.
C5_FailedLoadKeepsContent ==
    [][ last'.op = "note_load" =>
          /\ ~ReadToString(fs, note.path).ok =>
                /\ last'.ret = Err
                /\ note'.content = note.content
                /\ note'.path = note.path
          /\ last'.ret = Err => note' = note
      ]_vars

\* C5's case: a load has just failed on a note that holds a cached text.
C5_Witness ==
    /\ last.op = "note_load" /\ last.ret = Err
    /\ NoteIsLoaded(note)
    /\ ~ReadToString(fs, note.path).ok

----------------------------------------------------------------------------
(* Properties of the list cursor *)

NumFiles == Len(app.files)

\* The list index, for a cursor that is Selected.
Index == Unwrap(app.selected)

AfterDraw(k) == streak = k /\ pc = "event"

\* The states right after the k-th of these key presses.
AfterKey(k) == streak = k /\ pc = "draw"

C7_SelectPrevSelectsLast ==
    [][ (last'.op = "select_prev_file" /\ NumFiles >= 1) =>
          /\ pc' # "panic"
          /\ IF app.selected = None
             THEN /\ app'.selected = Some(NumFiles - 1)
                  /\ app'.current_file = Some(app.files[NumFiles])
             ELSE app'.selected = Some(Max(Index - 1, 0))
      ]_vars

\* C8 as stated: right after a select_next or select_prev that returned, a
\* Selected cursor's index is below the number of files.
C8_IndexInBoundsAfterSelect ==
    (last.op \in {"select_next_file", "select_prev_file"} /\ pc # "panic" /\ IsSome(app.selected))
        => (0 <= Index /\ Index < NumFiles)

\* C8, amended: right after a draw that rendered the list, for any list
\* length, a Selected cursor's index is below the number of listed files (so
\* with no files the cursor is Unselected); the same holds right after a
\* select_prev that returned. Right after select_next the index can be the
\* number of files.
C8_IndexInBoundsAfterDraw ==
    /\ (last.op = "draw" /\ last.drawn /\ IsSome(app.selected))
          => (0 <= Index /\ Index < Len(ListItems(app)) /\ Index < NumFiles)
    /\ (last.op = "select_prev_file" /\ pc # "panic")
          => (IsSome(app.selected) /\ 0 <= Index /\ Index < NumFiles)

\* C8's case: select_next was pressed more often than there are files, and
\* the draw after the last press has put the index on the last file.
C8_Witness ==
    /\ last.op = "draw" /\ last.drawn
    /\ NumFiles >= 1
    /\ streak > NumFiles
    /\ app.selected = Some(NumFiles - 1)

\* C9 as stated: no step returns a Selected cursor to Unselected.
C9_SelectionNeverRemoved == [][IsSome(app.selected) => IsSome(app'.selected)]_vars

\* C9, amended: the only step that returns a Selected cursor to Unselected
\* is a draw that renders an empty file list; select_next, select_prev,
\* refresh, any other key or event, and a draw of a list with files keep the
\* cursor Selected.
C9_OnlyEmptyListDrawUnselects ==
    [][ IsSome(app.selected) =>
          IF last'.op = "draw" /\ last'.drawn /\ NumFiles = 0
          THEN app'.selected = None
          ELSE IsSome(app'.selected)
      ]_vars

\* C9's case: a file was selected, the directory was then found empty by a
\* refresh, and the draw of the empty list has removed the selection.
C9_Witness ==
    /\ last.op = "draw" /\ last.drawn
    /\ IsSome(app.current_file)
    /\ NumFiles = 0
    /\ app.selected = None

----------------------------------------------------------------------------
(* Properties of the directory scan *)

\* The entries directly inside dir, by name.
ChildNames(dir) == {q[Len(q)] : q \in {r \in DOMAIN fs : fs[r] # Absent /\ Parent(r) = dir}}

\* The same entries without those the scan failed to read.
ReadChildNames(dir) ==
    {q[Len(q)] : q \in {r \in DOMAIN fs : fs[r] # Absent /\ Parent(r) = dir} \ last.skipped}

\* The last step is a directory scan that succeeded: in a BundleLoader::load,
\* in a refresh, or at the start of run.
BundleScanned == last.op = "load" /\ last.ret = Ok

AppScanned == last.op \in {"refresh_file_list", "run"} /\ last.ret = Ok

\* The names the application lists: one path component each.
ListedNames == {item[1] : item \in Range(ListItems(app))}

\* C10 as stated: after a successful scan the listed names have the count
\* and the set of the directory's direct-child entries.
C10_ListedNamesAreTheEntries ==
    /\ BundleScanned =>
          /\ Len(BundleGetNoteNames(bundle)) = Cardinality(ChildNames(bundle.path))
          /\ Range(BundleGetNoteNames(bundle)) = ChildNames(bundle.path)
    /\ AppScanned =>
          /\ Len(ListItems(app)) = Cardinality(ChildNames(app.current_dir))
          /\ ListedNames = ChildNames(app.current_dir)

\* C10, amended: after a successful scan the listed names have the count
\* and the set of the direct-child entries that the scan read without an
\* error, which are all of them when no entry failed; a sub-directory is one
\* entry and what it contains is not listed.
C10_ListedNamesAreTheReadEntries ==
    /\ BundleScanned =>
          /\ Len(BundleGetNoteNames(bundle)) = Cardinality(ReadChildNames(bundle.path))
          /\ Range(BundleGetNoteNames(bundle)) = ReadChildNames(bundle.path)
          /\ last.skipped = {} => Range(BundleGetNoteNames(bundle)) = ChildNames(bundle.path)
          /\ \A k \in NoteIdx : Parent(bundle.notes[k].path) = bundle.path
    /\ AppScanned =>
          /\ Len(ListItems(app)) = Cardinality(ReadChildNames(app.current_dir))
          /\ \A item \in Range(ListItems(app)) : Len(item) = 1
          /\ ListedNames = ReadChildNames(app.current_dir)
          /\ last.skipped = {} => ListedNames = ChildNames(app.current_dir)

\* C10's case: a bundle scanned, with no entry failing, from a directory
\* that holds a file and a sub-directory with a file inside: two names.
C10_Witness ==
    /\ BundleScanned
    /\ last.skipped = {}
    /\ InnerPath \in DOMAIN fs
    /\ fs[InnerPath] # Absent
    /\ Len(BundleGetNoteNames(bundle)) = 2
    /\ Range(BundleGetNoteNames(bundle)) = {"1.md", DirName}

----------------------------------------------------------------------------
(* Properties of BundleLoader *)

\* The directories above p in the tree.
Above(p) == {q \in DOMAIN fs : IsUnder(p, q)}

\* C11: init on a path that does not exist creates the directory and the
\* missing directories above it, touches nothing else, and returns a Bundle
\* with that path and no notes; init on a directory that is there succeeds,
\* changes nothing on disk and returns a Bundle with that path and no notes,
\* whatever the directory holds.
C11_InitCreatesEmptyBundle ==
    [][ last'.op = "init" =>
          LET p == last'.path
          IN  /\ fs[p] = Absent =>
                    /\ last'.ret = Ok
                    /\ fs'[p] = Dir
                    /\ \A q \in Above(p) : fs'[q] = Dir
                    /\ \A q \in DOMAIN fs \ ({p} \cup Above(p)) : fs'[q] = fs[q]
                    /\ last'.created = {p} \cup {q \in Above(p) : fs[q] = Absent}
                    /\ bundle' = [path |-> p, notes |-> <<>>]
              /\ fs[p] = Dir =>
                    /\ last'.ret = Ok
                    /\ fs' = fs
                    /\ bundle' = [path |-> p, notes |-> <<>>]
              /\ last'.ret = Err => (fs' = fs /\ bundle' = bundle)
      ]_vars

\* C11's case: init has just created a directory together with the missing
\* directory above it, and returned the empty bundle of that path.
C11_Witness ==
    /\ last.op = "init" /\ last.ret = Ok
    /\ last.path = BundleDir \o <<DirName>>
    /\ last.created = {BundleDir, BundleDir \o <<DirName>>}
    /\ fs[last.path] = Dir
    /\ bundle = [path |-> last.path, notes |-> <<>>]

\* The paths of the bundle's notes, in the bundle's order.
NotePathsOf(b) == [k \in 1..Len(b.notes) |-> b.notes[k].path]

\* C12: load on a path that cannot be read as a directory (missing, or a
\* plain file) returns an error and the caller gets no Bundle; load on a
\* directory succeeds also when entries fail to be read, and the Bundle then
\* holds exactly the entries that were read, unloaded, in the order read_dir
\* yielded them, so never more notes than the directory has entries.
C12_LoadKeepsReadableEntries ==
    [][ last'.op = "load" =>
          LET p == last'.path
              entries == DirEntries(fs, p)
          IN  /\ fs' = fs
              /\ ~ReadDirOk(fs, p) => (last'.ret = Err /\ bundle' = bundle)
              /\ ReadDirOk(fs, p) =>
                    /\ last'.ret = Ok
                    /\ bundle'.path = p
                    /\ Range(last'.enum) = entries
                    /\ Len(last'.enum) = Cardinality(entries)
                    /\ last'.skipped \subseteq entries
                    /\ NotePathsOf(bundle') =
                          SelectSeq(last'.enum, LAMBDA q : q \notin last'.skipped)
                    /\ \A k \in 1..Len(bundle'.notes) : bundle'.notes[k].content = None
                    /\ Len(bundle'.notes) = Cardinality(entries \ last'.skipped)
                    /\ Len(bundle'.notes) <= Cardinality(entries)
      ]_vars

\* C12's case: a load that succeeded although the first entry read_dir
\* yielded failed to be read; the bundle holds the other entry alone.
C12_Witness ==
    /\ last.op = "load" /\ last.ret = Ok
    /\ Len(last.enum) = 2
    /\ last.skipped = {last.enum[1]}
    /\ NotePathsOf(bundle) = <<last.enum[2]>>

----------------------------------------------------------------------------
(* Properties of Note *)

\* C13: a load whose read succeeds returns Ok and sets the content to the
\* text the file holds at that moment, whatever the note held before; the
\* note is then loaded and get returns that text. is_loaded returns true
\* exactly when get returns Some, and neither of the two changes the note or
\* reads a file.
C13_LoadStoresFileText ==
    [][ /\ (last'.op = "note_load" /\ ReadToString(fs, note.path).ok) =>
              /\ last'.ret = Ok
              /\ note'.path = note.path
              /\ note'.content = Some(fs[note.path].text)
              /\ NoteIsLoaded(note')
              /\ NoteGet(note') = Some(fs[note.path].text)
        /\ last'.op = "note_is_loaded" =>
              /\ last'.ret = <<NoteGet(note) # None>>
              /\ ~last'.read
              /\ note' = note /\ fs' = fs
        /\ last'.op = "note_get" =>
              /\ last'.ret = note.content
              /\ ~last'.read
              /\ note' = note /\ fs' = fs
      ]_vars

\* C13's case: a load has just replaced a text the note held by the other
\* text the file holds now.
C13_Witness ==
    /\ last.op = "note_load" /\ last.ret = Ok
    /\ IsSome(last.old)
    /\ last.old # note.content
    /\ note.content = Some(fs[note.path].text)

\* C14: name returns the last component of a path that has a file name and
\* "<<error>>" for a path that ends in ".." or is the root; it returns for
\* every path, and it leaves the note (loaded or not) and the files alone.
C14_NameIsLastComponent ==
    [][ last'.op = "note_name" =>
          /\ note.path \in DOMAIN fs => last'.ret = <<note.path[Len(note.path)]>>
          /\ note.path \in {BundleDir \o <<"..">>, RootPath} => last'.ret = <<"<<error>>">>
          /\ Len(last'.ret) = 1
          /\ ~last'.read
          /\ note' = note /\ fs' = fs
      ]_vars

\* C14's case: name has just returned the sentinel for a note whose path
\* ends in "..", and the note is still unloaded.
C14_Witness ==
    /\ last.op = "note_name"
    /\ note.path = BundleDir \o <<"..">>
    /\ last.ret = <<NOTE_BAD_NAME>>
    /\ ~NoteIsLoaded(note)

----------------------------------------------------------------------------
(* Properties of the application *)

\* C15: a draw that reads the current file stores the file's text when the
\* read succeeds and the "Error reading file" text when it does not (the
\* file is gone, or is a directory), and goes on either way; a later draw
\* finds contents held, the error text like any other, and keeps them
\* without a read.
C15_ReadErrorBecomesContents ==
    /\ [](( last.op = "draw" /\ last.read ) =>
            /\ IsSome(app.current_file)
            /\ app.current_file_contents =
                  Some(IF ReadToString(fs, Unwrap(app.current_file)).ok
                       THEN fs[Unwrap(app.current_file)].text
                       ELSE "Error reading file")
            /\ last.ret = Ok => pc = "event")
    /\ [][ (last'.op = "draw" /\ IsSome(app.current_file_contents)) =>
              /\ ~last'.read
              /\ app'.current_file_contents = app.current_file_contents
          ]_vars

\* C15's case: the current file was removed, the draw has read it and holds
\* the error text as its contents, and the loop goes on.
C15_Witness ==
    /\ last.op = "draw" /\ last.read
    /\ pc = "event"
    /\ IsSome(app.current_file)
    /\ fs[Unwrap(app.current_file)] = Absent
    /\ app.current_file_contents = Some(ErrorReadingFile)

\* The steps of the loop: a draw, or the handling of an event.
LoopOps ==
    {"draw", "terminal_error", "exit", "select_next_file", "select_prev_file",
     "refresh_file_list", "ignored"}

\* C16: a key press is handled as the exit exactly when its code is 'q' or
\* Esc, whatever the application holds; the exit sets the state to Exiting,
\* changes nothing else, and the loop returns Ok. The loop draws and reads
\* events only while the state is not Exiting: once run has returned Ok no
\* draw or event follows (unless run is called again).
C16_ExitKeyEndsLoop ==
    /\ [][ /\ (last'.op \in LoopOps /\ last'.key \in {"q", "Esc"}) <=> last'.op = "exit"
           /\ last'.op = "exit" =>
                 /\ app'.state = "Exiting"
                 /\ app' = [app EXCEPT !.state = "Exiting"]
                 /\ pc' = "done"
           /\ (last'.op \in LoopOps /\ last'.op # "exit") => app'.state = app.state
           /\ last'.op \in LoopOps => (pc \in {"draw", "event"} /\ app.state # "Exiting")
           /\ pc = "done" => last'.op \notin LoopOps
         ]_vars
    /\ [](pc \in {"draw", "event"} => app.state # "Exiting")
    /\ [](pc = "done" <=> app.state = "Exiting")
    /\ [](pc = "done" => last.op = "exit")

\* C16's case: Esc was pressed with a file selected and shown; the state is
\* Exiting and run has returned Ok.
C16_Witness ==
    /\ last.op = "exit" /\ last.key = "Esc"
    /\ pc = "done"
    /\ app.state = "Exiting"
    /\ IsSome(app.selected)
    /\ IsSome(app.current_file_contents)

\* Init, Running, Exiting in the order of the enum.
StateRank(st) == CASE st = "Init" -> 0 [] st = "Running" -> 1 [] st = "Exiting" -> 2

\* C17 as stated: the state never moves backwards, and whenever run has
\* returned the state is Exiting.
C17_ExitingWheneverRunReturns ==
    /\ [][StateRank(app'.state) >= StateRank(app.state)]_vars
    /\ [](pc \in {"done", "failed"} => app.state = "Exiting")

\* C17, amended: a run entered in state Init moves the state from Init to
\* Running and, by the exit key, from Running to Exiting, and in no other
\* way; the state is Exiting exactly when run has returned Ok. When run has
\* returned an error the state is Init (the set-up failed) or Running (a
\* draw or the reading of an event failed). A run entered in another state
\* than Init sets the state to Running, also from Exiting.
C17_StateOrderWithinRun ==
    /\ [][ app'.state # app.state =>
              \/ app.state = "Init" /\ app'.state = "Running"
                    /\ last'.op = "run" /\ last'.ret = Ok
              \/ app.state = "Running" /\ app'.state = "Exiting" /\ last'.op = "exit"
              \/ app.state = "Exiting" /\ app'.state = "Running"
                    /\ last'.op = "run_not_init" /\ pc = "done"
         ]_vars
    /\ [][ last'.op = "run" => (app.state = "Init" /\ (last'.ret = Err <=> pc' = "failed")) ]_vars
    /\ [](pc = "run" => app.state = "Init")
    /\ [](pc \in {"draw", "event"} => app.state = "Running")
    /\ [](pc = "done" <=> app.state = "Exiting")
    /\ [](pc = "failed" => app.state \in {"Init", "Running"})
    /\ []((pc = "failed" /\ last.op = "run") => app.state = "Init")
    /\ []((pc = "failed" /\ last.op # "run") => app.state = "Running")

\* C17's case: run has returned the error of a draw that rendered the list,
\* with files listed, and the state is still Running.
C17_Witness ==
    /\ pc = "failed"
    /\ last.op = "draw" /\ last.ret = Err /\ last.drawn
    /\ NumFiles >= 1
    /\ app.state = "Running"

----------------------------------------------------------------------------
(* Properties of a Bundle's membership *)

\* C18: get_note for any index, get_note_names, name and get_path leave the
\* bundle's path, the number of its notes, their order and their paths as
\* they are, and so does whatever happens to the files; the only step after
\* which the caller's bundle has other members is a BundleLoader::load that
\* succeeded and whose Bundle has replaced it.
C18_MembershipIsFixed ==
    [][ /\ last'.op \in {"get_note", "get_note_names", "name", "get_path", "fs"} =>
              /\ bundle'.path = bundle.path
              /\ Len(bundle'.notes) = Len(bundle.notes)
              /\ NotePathsOf(bundle') = NotePathsOf(bundle)
        /\ (bundle'.path # bundle.path \/ NotePathsOf(bundle') # NotePathsOf(bundle)) =>
              (last'.op = "load" /\ last'.ret = Ok)
      ]_vars

\* C18's case: get_note has just read a note of a bundle of two whose other
\* note's file is gone from the directory; the bundle still lists both.
C18_Witness ==
    /\ last.op = "get_note" /\ last.read
    /\ Len(bundle.notes) = 2
    /\ \E k \in NoteIdx : k # last.idx + 1 /\ fs[bundle.notes[k].path] = Absent
    /\ Range(NotePathsOf(bundle)) # DirEntries(fs, bundle.path)

----------------------------------------------------------------------------
(* Properties of refresh and of the current file *)

\* C19: a refresh changes nothing but the file list: the cursor (Unselected
\* or Selected(i)), the current file, the contents held for it, the state
\* and current_dir are after it what they were before, also when the new
\* list ends before index i; the list becomes what the fresh scan read, and
\* stays when the scan fails.
C19_RefreshReplacesOnlyTheList ==
    [][ last'.op = "refresh_file_list" =>
          /\ app'.selected = app.selected
          /\ app'.current_file = app.current_file
          /\ app'.current_file_contents = app.current_file_contents
          /\ app'.state = app.state
          /\ app'.current_dir = app.current_dir
          /\ fs' = fs
          /\ last'.ret = Ok =>
                /\ Range(last'.enum) = DirEntries(fs, app.current_dir)
                /\ app'.files = SelectSeq(last'.enum, LAMBDA q : q \notin last'.skipped)
          /\ last'.ret # Ok => app'.files = app.files
      ]_vars

\* C19's case: a refresh has just replaced the list by one that ends before
\* the selected index and no longer holds the current file; cursor, current
\* file and contents are still there.
C19_Witness ==
    /\ last.op = "refresh_file_list" /\ last.ret = Ok
    /\ IsSome(app.selected)
    /\ Index >= NumFiles
    /\ IsSome(app.current_file)
    /\ Unwrap(app.current_file) \notin Range(app.files)
    /\ IsSome(app.current_file_contents)

\* C20: a select_next or select_prev that sets the current file (the new
\* index is in the list) leaves no contents held, one that does not set it
\* leaves current file and contents alone; a draw reads the current file
\* exactly when there is one and no contents are held, and holds what it read
\* afterwards; no other step touches current file or contents, so a draw
\* that follows a draw with no selection step in between reads nothing.
C20_ContentsReadOncePerSelection ==
    /\ [][ /\ last'.op \in {"select_next_file", "select_prev_file"} =>
                 IF Unwrap(app'.selected) < NumFiles
                 THEN /\ app'.current_file = Some(app.files[Unwrap(app'.selected) + 1])
                      /\ app'.current_file_contents = None
                 ELSE /\ app'.current_file = app.current_file
                      /\ app'.current_file_contents = app.current_file_contents
           /\ last'.op = "draw" =>
                 /\ app'.current_file = app.current_file
                 /\ IF IsSome(app.current_file) /\ app.current_file_contents = None
                    THEN /\ last'.read
                         /\ app'.current_file_contents =
                               Some(ReadFileContents(fs, Unwrap(app.current_file)))
                    ELSE /\ ~last'.read
                         /\ app'.current_file_contents = app.current_file_contents
           /\ last'.op \notin {"select_next_file", "select_prev_file", "draw"} =>
                 /\ app'.current_file = app.current_file
                 /\ app'.current_file_contents = app.current_file_contents
         ]_vars
    /\ [](last.op = "draw" => (IsSome(app.current_file) => IsSome(app.current_file_contents)))

\* C20's case: the file was read by a draw, rewritten on disk, and drawn
\* again without a selection step: the draw did not read it and the
\* contents held are still the text read first.
C20_Witness ==
    /\ last.op = "draw" /\ ~last.read /\ last.ret = Ok
    /\ IsSome(app.current_file)
    /\ IsSome(app.current_file_contents)
    /\ fs[Unwrap(app.current_file)].kind = "file"
    /\ app.current_file_contents # Some(fs[Unwrap(app.current_file)].text)
    /\ app.current_file_contents # Some(ErrorReadingFile)

----------------------------------------------------------------------------
(* Properties of get_note's index, of a failed refresh and of the file shown *)

\* C21: get_note(idx) with idx below the number of notes returns Some of
\* the note at idx, as it is after the call; with idx at or past the number
\* of notes it returns None, reads no file and leaves every note, the
\* bundle and the files as they are.
C21_GetNoteInAndOutOfBounds ==
    [][ last'.op = "get_note" =>
          IF last'.idx < Len(bundle.notes)
          THEN /\ last'.ret = Some(bundle'.notes[last'.idx + 1])
               /\ Unwrap(last'.ret).path = bundle.notes[last'.idx + 1].path
          ELSE /\ last'.ret = None
               /\ ~last'.read
               /\ bundle' = bundle
               /\ reads' = reads
               /\ fs' = fs
      ]_vars

\* C21's case: get_note on the index one past the last note of a bundle of
\* two has returned None, and a note whose file is readable is still
\* unloaded and unread.
C21_Witness ==
    /\ last.op = "get_note" /\ last.ret = None /\ ~last.read
    /\ Len(bundle.notes) = 2
    /\ last.idx = Len(bundle.notes)
    /\ \E k \in NoteIdx :
          /\ ~NoteIsLoaded(bundle.notes[k])
          /\ reads[k] = 0
          /\ ReadToString(fs, bundle.notes[k].path).ok

\* C22: a refresh whose scan fails (the directory is gone) is not an error
\* of the loop: the file list, the selection, the current file, its
\* contents and the state, Running, are after it what they were before, and
\* the loop goes on with the next draw.
C22_FailedRefreshKeepsEverything ==
    [][ last'.op = "refresh_file_list" =>
          /\ last'.key = "r"
          /\ ~ReadDirOk(fs, app.current_dir) <=> last'.ret = Err
          /\ last'.ret = Err =>
                /\ app'.files = app.files
                /\ app'.selected = app.selected
                /\ app'.current_file = app.current_file
                /\ app' = app
                /\ app'.state = "Running"
                /\ pc' = "draw"
                /\ fs' = fs
      ]_vars

\* C22's case: the directory was removed while files were listed and one
\* was selected; the refresh has failed, the list and the selection are
\* still there and the loop is about to draw.
C22_Witness ==
    /\ last.op = "refresh_file_list" /\ last.ret = Err
    /\ fs[app.current_dir] = Absent
    /\ NumFiles >= 1
    /\ IsSome(app.selected)
    /\ IsSome(app.current_file)
    /\ app.state = "Running"
    /\ pc = "draw"

\* C23: in every state contents are held only when there is a current
\* file, and right after a draw contents are held exactly when there is a
\* current file: none for "No file selected.", the text read (or the error
\* text) otherwise.
C23_ContentsOnlyWithCurrentFile ==
    /\ IsSome(app.current_file_contents) => IsSome(app.current_file)
    /\ last.op = "draw" =>
          (IsSome(app.current_file_contents) <=> IsSome(app.current_file))

\* C23's case: a draw has just read the second file of the list, selected
\* by the step before it; contents are held for the current file.
C23_Witness ==
    /\ last.op = "draw" /\ last.read /\ last.drawn
    /\ app.selected = Some(1)
    /\ app.current_file = Some(app.files[2])
    /\ IsSome(app.current_file_contents)

\* C24 as stated: with no refresh handled since the last select_next or
\* select_prev, a cursor that is Selected(i) with i below the number of
\* files has files[i] as the current file.
C24_CurrentFileIsHighlighted ==
    (~refreshed /\ IsSome(app.selected) /\ Index < NumFiles)
        => app.current_file = Some(app.files[Index + 1])

====
